---- MODULE Spec2Model ----
(***************************************************************************)
(* Model of rig-libsql (src/rig-libsql/src/lib.rs): LibsqlVectorStore      *)
(* (new, add_rows), LibsqlSearchFilter and LibsqlVectorIndex               *)
(* (top_n, top_n_ids) running against one shared libsql::Connection.       *)
(*                                                                         *)
(* Every conn.execute / conn.query is an await point and one step of the   *)
(* calling future.  The engine side of a statement (SQLite transaction     *)
(* state, INSERT OR REPLACE, the vec0 virtual table) is modelled by the    *)
(* operators of the "engine" section.                                      *)
(*                                                                         *)
(* Two parts of rig-core are modelled beside it: SimpleSkillBuilder and    *)
(* Skill::into_components (src/rig/rig-core/src/agent/skill.rs) and the    *)
(* siliconflow image response conversion                                   *)
(* (src/rig-core/src/providers/siliconflow/image_generation.rs).           *)
(***************************************************************************)
EXTENDS Integers, Sequences, FiniteSets, TLC

\* ------------------------------------------------------------------ bounds
MaxItems == 2       \* records handed to add_rows over a whole run
MaxEmb == 2         \* embeddings of a record that carries several
MaxFaults == 1      \* engine failures injected over a whole run
MaxDims == 1        \* largest ndims() of the embedding model
MaxSamples == 2     \* largest req.samples()

\* ------------------------------------------------------------ input values
Ids == {"x", "y"}               \* values of LibsqlVectorStoreTable::id()
Contents == {"a", "b"}          \* values of the `content` column
Callers == {1, 2}               \* futures that share the connection
SeqCallers == {1}               \* a single caller: calls run one after another

Max(S) == CHOOSE m \in S : \A n \in S : n <= m

\* Column::new(name, col_type) / Column::indexed, as far as the engine acts on
\* them: whether the declared col_type of `id` carries PRIMARY KEY (or UNIQUE),
\* whether `content` is flagged indexed, whether a declared column name is
\* a reserved identifier of the engine, whether column_values() reports
\* every declared column (a column it leaves out is stored as NULL), and
\* whether `id` is the first column that schema() declares.
Column == [idUnique : BOOLEAN, indexed : BOOLEAN, reserved : BOOLEAN,
           reported : BOOLEAN, idFirst : BOOLEAN]

\* The embedding model: the vector (one coordinate) it computes for a text.
Embed(text) == IF text = "a" THEN 0 ELSE 1

\* OneOrMany<Embedding>: one embedding, or several.
EmbCounts == {1, MaxEmb}

\* Vec<(T, OneOrMany<Embedding>)>: a record with the embeddings computed from
\* its content; the embeddings of one record are taken equal.
Documents ==
    {[id |-> id, content |-> content,
      embeddings |-> [i \in 1..n |-> Embed(content)]] :
        id \in Ids, content \in Contents, n \in EmbCounts}
Batches == UNION {[1..n -> Documents] : n \in 0..MaxItems}

VARIABLES
    schema,     \* T::schema() of the record type, fixed for the run
    dims,       \* embedding_model.ndims(), fixed for the run
    conn,       \* the libsql::Connection and the database behind it
    hasStore,   \* some LibsqlVectorStore::new returned Ok(Self)
    call,       \* per caller: position and locals of the future in flight
    ret,        \* per caller: what the last finished call returned
    faults,     \* engine failures injected so far
    hist,       \* history of the run: [items, addFailed, dropped, lost]
    filter,     \* the LibsqlSearchFilter value being built
    nops,       \* combinators (and, or, not) applied to build it
    expr,       \* the constructor and combinator calls that built it
    compiled,   \* what compile_params returned for it, once called
    builder,    \* the SimpleSkillBuilder value, moved from call to call
    calls,      \* the builder methods called so far, with their arguments
    skill,      \* what SimpleSkillBuilder::build produced
    components, \* what SimpleSkill::into_components returned
    response,   \* the siliconflow ImageGenerationResponse to convert
    converted   \* what try_from returned for it

storeVars == <<schema, dims, conn, hasStore, call, ret, faults, hist>>
filterVars == <<filter, nops, expr, compiled>>
coreVars == <<builder, calls, skill, components, response, converted>>
vars == <<schema, dims, conn, hasStore, call, ret, faults, hist,
          filter, nops, expr, compiled,
          builder, calls, skill, components, response, converted>>

\* ------------------------------------------------------------------ engine
NoSnap == [tables |-> {}, docs |-> {}, embs |-> {}]

\* What a statement on the connection sees.
View(c) == [tables |-> c.tables, docs |-> c.docs, embs |-> c.embs]

\* "BEGIN": opens a transaction on the connection.
Begin(c) == [c EXCEPT !.inTxn = TRUE, !.saved = View(c)]

\* "COMMIT": makes the writes since BEGIN durable.
Commit(c) == [c EXCEPT !.inTxn = FALSE, !.saved = NoSnap]

\* The engine rolls the open transaction back by itself on some errors
\* (SQLITE_FULL, SQLITE_IOERR, SQLITE_NOMEM, ...).
AutoRollback(c) ==
    IF c.inTxn
    THEN [c EXCEPT !.inTxn = FALSE, !.saved = NoSnap,
                   !.tables = c.saved.tables, !.docs = c.saved.docs,
                   !.embs = c.saved.embs]
    ELSE c

\* Outcome of a statement that the engine fails: either only the statement is
\* undone and the transaction stays open, or the transaction is rolled back.
FailKinds == {"stmt", "abort"}
Failed(c, kind) == IF kind = "abort" THEN AutoRollback(c) ELSE c

\* Rowid the engine assigns to a new row of the document table.
NewRowid(docs) == Max({r.rowid : r \in docs} \cup {0}) + 1

\* A plain INSERT into a table without a uniqueness constraint: the upsert
\* with its replacement of the conflicting row left out.
InsertOnly(c, doc) ==
    [c EXCEPT !.docs = c.docs \cup
                  {[rowid |-> NewRowid(c.docs), id |-> doc.id,
                    content |-> doc.content]},
              !.lastRowid = NewRowid(c.docs)]

\* "INSERT OR REPLACE INTO {table_name} (id, content) VALUES (?1, ?2)".
\* The new rowid is taken first; rows that conflict on a unique id are deleted.
InsertOrReplace(c, doc) ==
    LET rowid == NewRowid(c.docs)
        kept  == IF schema.idUnique
                 THEN {r \in c.docs : r.id # doc.id}
                 ELSE c.docs
    IN  [c EXCEPT !.docs = kept \cup
                      {[rowid |-> rowid, id |-> doc.id, content |-> doc.content]},
                  !.lastRowid = rowid]

\* "INSERT INTO {table_name}_embeddings (rowid, embedding) VALUES (?1, ?2)":
\* rowid is the primary key of the vec0 table.
EmbRowidTaken(c, rowid) == \E e \in c.embs : e.rowid = rowid
InsertEmbedding(c, rowid, vec) ==
    [c EXCEPT !.embs = c.embs \cup {[rowid |-> rowid, vec |-> vec]},
              !.lastRowid = rowid]

\* --------------------------------------------------------- calls and results
NoReq == [samples |-> 0, threshold |-> <<>>, query |-> "", filter |-> <<>>]

\* Locals of a future: pc is the await point it is suspended at; pre, preTxn
\* and preStore record what the connection looked like when it was called;
\* sent is the last statement it built from its arguments, with the
\* parameters bound to it.
Idle == [pc |-> "idle", op |-> "none", documents |-> <<>>, k |-> 0, j |-> 0,
         last_id |-> 0, create_indexes |-> <<>>, req |-> NoReq, D |-> "none",
         pre |-> NoSnap, preTxn |-> FALSE, preStore |-> FALSE,
         stmts |-> 0, embedded |-> FALSE, sent |-> <<>>]

\* A call as it starts on the connection in its current state.
Start(op) ==
    [Idle EXCEPT !.op = op, !.pre = View(conn), !.preTxn = conn.inTxn,
                 !.preStore = hasStore]

NoRet == [ok |-> FALSE, err |-> "none", cause |-> "none", value |-> 0,
          rows |-> <<>>, call |-> Idle]

\* The future of caller p resolves to Ok(value) / Ok(rows) or to Err(err);
\* `last` holds its locals as they are at that point.
Return(p, last, ok, err, cause, value, rows) ==
    /\ ret' = [ret EXCEPT ![p] =
                 [ok |-> ok, err |-> err, cause |-> cause, value |-> value,
                  rows |-> rows, call |-> last]]
    /\ call' = [call EXCEPT ![p] = Idle]
    /\ hist' = [hist EXCEPT !.addFailed = @ \/ (last.op = "add_rows" /\ ~ok)]

\* The locals of caller p once the statement at its await point is handed to
\* the engine.
Issued(p) == [call[p] EXCEPT !.stmts = @ + 1]

\* The engine fails the statement in flight; `?` maps it to DatastoreError.
Fault(p) ==
    /\ faults < MaxFaults
    /\ \E kind \in FailKinds :
         /\ conn' = Failed(conn, kind)
         /\ faults' = faults + 1
         /\ Return(p, Issued(p), FALSE, "DatastoreError", "fault", 0, <<>>)

\* A statement the engine rejects by its own rules (nested BEGIN, no such
\* table, constraint violation): the statement has no effect and the
\* transaction state is left as it is.
Reject(p) ==
    /\ conn' = conn
    /\ UNCHANGED faults
    /\ Return(p, Issued(p), FALSE, "DatastoreError", "reject", 0, <<>>)

\* The statement succeeded and the future moves on to await point pc.
Goto(p, pc) ==
    /\ call' = [call EXCEPT ![p] = [Issued(p) EXCEPT !.pc = pc]]
    /\ UNCHANGED <<ret, faults, hist>>

\* index(self, model) moves the store into the index: a caller that has
\* searched holds an index and no store to provision or ingest with.
HoldsStore(p) == ret[p].call.op \notin {"top_n", "top_n_ids"}

\* --------------------------------------------------- LibsqlVectorStore::new
\* create_indexes: the id index first, then one index per indexed column.
CreateIndexes ==
    <<"idx_id">> \o (IF schema.indexed THEN <<"idx_content">> ELSE <<>>)

\* "DROP ... IF EXISTS name; CREATE ... name": provisioning that starts the
\* object afresh instead of keeping the one that is there.
CreateAfresh(c, name) ==
    [c EXCEPT !.tables = @ \cup {name},
              !.docs = IF name = "documents" THEN {} ELSE @,
              !.embs = IF name = "embeddings" THEN {} ELSE @]

\* "CREATE ... IF NOT EXISTS name": creates the object unless it is there.
CreateIfNotExists(c, name) == [c EXCEPT !.tables = @ \cup {name}]

\* new() is called; everything up to the first await only builds strings.
NewCall(p) ==
    /\ call[p].pc = "idle"
    /\ HoldsStore(p)
    /\ UNCHANGED <<filterVars, coreVars>>
    /\ call' = [call EXCEPT ![p] =
                  [Start("new") EXCEPT !.pc = "new_begin",
                                       !.create_indexes = CreateIndexes]]
    /\ ret' = [ret EXCEPT ![p] = NoRet]
    /\ UNCHANGED <<schema, dims, conn, hasStore, faults, hist>>

\* conn.execute("BEGIN", ())
NewBegin(p) ==
    /\ call[p].pc = "new_begin"
    /\ UNCHANGED <<filterVars, coreVars>>
    /\ UNCHANGED <<schema, dims, hasStore>>
    /\ \/ /\ conn.inTxn
          /\ Reject(p)
       \/ /\ ~conn.inTxn
          /\ conn' = Begin(conn)
          /\ Goto(p, "new_table")
       \/ Fault(p)

\* conn.execute(&create_table, ()): CREATE TABLE IF NOT EXISTS {table_name};
\* a column named by a reserved identifier is a syntax error.
NewCreateTable(p) ==
    /\ call[p].pc = "new_table"
    /\ UNCHANGED <<filterVars, coreVars>>
    /\ UNCHANGED <<schema, dims, hasStore>>
    /\ \/ /\ schema.reserved
          /\ Reject(p)
       \/ /\ ~schema.reserved
          /\ conn' = CreateIfNotExists(conn, "documents")
          /\ Goto(p, "new_index")
       \/ Fault(p)

\* for index_stmt in create_indexes { conn.execute(&index_stmt, ()) }
NewCreateIndex(p) ==
    /\ call[p].pc = "new_index"
    /\ UNCHANGED <<filterVars, coreVars>>
    /\ UNCHANGED <<schema, dims, hasStore>>
    /\ \/ /\ "documents" \notin conn.tables
          /\ Reject(p)
       \/ /\ "documents" \in conn.tables
          /\ conn' = CreateIfNotExists(conn, Head(call[p].create_indexes))
          /\ call' = [call EXCEPT ![p] =
                        [Issued(p) EXCEPT
                           !.create_indexes = Tail(@),
                           !.pc = IF Tail(call[p].create_indexes) = <<>>
                                  THEN "new_embeddings" ELSE "new_index"]]
          /\ UNCHANGED <<ret, faults, hist>>
       \/ Fault(p)

\* CREATE VIRTUAL TABLE IF NOT EXISTS {table_name}_embeddings
\*   USING vec0(embedding float[{dims}])
\* vec0 rejects a vector column of 0 dimensions; an existing table is kept.
NewCreateEmbeddings(p) ==
    /\ call[p].pc = "new_embeddings"
    /\ UNCHANGED <<filterVars, coreVars>>
    /\ UNCHANGED <<schema, dims, hasStore>>
    /\ \/ /\ dims = 0
          /\ "embeddings" \notin conn.tables
          /\ Reject(p)
       \/ /\ dims > 0 \/ "embeddings" \in conn.tables
          /\ conn' = CreateIfNotExists(conn, "embeddings")
          /\ Goto(p, "new_commit")
       \/ Fault(p)

\* conn.execute("COMMIT", ()) and Ok(Self { conn, .. })
NewCommit(p) ==
    /\ call[p].pc = "new_commit"
    /\ UNCHANGED <<filterVars, coreVars>>
    /\ UNCHANGED <<schema, dims>>
    /\ \/ /\ ~conn.inTxn
          /\ Reject(p)
          /\ UNCHANGED hasStore
       \/ /\ conn.inTxn
          /\ conn' = Commit(conn)
          /\ hasStore' = TRUE
          /\ Return(p, Issued(p), TRUE, "none", "none", 0, <<>>)
          /\ UNCHANGED faults
       \/ /\ Fault(p)
          /\ UNCHANGED hasStore

\* ---------------------------------------------- LibsqlVectorStore::add_rows
\* add_rows(&self, documents) is called on a store obtained from new().
AddRowsCall(p) ==
    /\ call[p].pc = "idle"
    /\ HoldsStore(p)
    /\ UNCHANGED <<filterVars, coreVars>>
    /\ hasStore
    /\ \E documents \in Batches :
         /\ hist.items + Len(documents) <= MaxItems
         /\ hist' = [hist EXCEPT !.items = @ + Len(documents)]
         /\ call' = [call EXCEPT ![p] =
                       [Start("add_rows") EXCEPT !.pc = "add_begin",
                                                 !.documents = documents]]
    /\ ret' = [ret EXCEPT ![p] = NoRet]
    /\ UNCHANGED <<schema, dims, conn, hasStore, faults>>

\* self.conn.execute("BEGIN", ())
AddBegin(p) ==
    /\ call[p].pc = "add_begin"
    /\ UNCHANGED <<filterVars, coreVars>>
    /\ UNCHANGED <<schema, dims, hasStore>>
    /\ \/ /\ conn.inTxn
          /\ Reject(p)
       \/ /\ ~conn.inTxn
          /\ conn' = Begin(conn)
          /\ call' = [call EXCEPT ![p] =
                        [Issued(p) EXCEPT
                           !.k = 1,
                           !.pc = IF call[p].documents = <<>>
                                  THEN "add_commit" ELSE "add_insert"]]
          /\ UNCHANGED <<ret, faults, hist>>
       \/ Fault(p)

\* doc.column_values(): (column, value) pairs, in the order the record type
\* declares its columns, without `content` for a type that does not report it.
column_values(doc) ==
    LET id      == <<"id", [type |-> "String", text |-> doc.id]>>
        content == <<"content", [type |-> "String", text |-> doc.content]>>
    IN  IF ~schema.reported THEN <<id>>
        ELSE IF schema.idFirst THEN <<id, content>> ELSE <<content, id>>

\* impl ColumnValue for String: to_sql_string is self.clone()
to_sql_string(val) == val.text

\* items.join(", ")
RECURSIVE Join(_)
Join(items) ==
    IF Len(items) <= 1 THEN items
    ELSE <<items[1], ", ">> \o Join(Tail(items))

\* The statement with the values written into its text and nothing bound.
insert_inlined(values) ==
    [sql |-> <<"INSERT OR REPLACE INTO ", "documents", " (">> \o
             Join([i \in DOMAIN values |-> values[i][1]]) \o
             <<") VALUES (">> \o
             Join([i \in DOMAIN values |-> to_sql_string(values[i][2])]) \o
             <<")">>,
     params |-> <<>>]

\* insert_sql = format!("INSERT OR REPLACE INTO {} ({}) VALUES ({})", ...)
\* with placeholders ?1..?n, and param_values, the to_sql_string of the values.
insert(values) ==
    [sql |-> <<"INSERT OR REPLACE INTO ", "documents", " (">> \o
             Join([i \in DOMAIN values |-> values[i][1]]) \o
             <<") VALUES (">> \o
             Join([i \in DOMAIN values |-> "?" \o ToString(i)]) \o
             <<")">>,
     params |-> [i \in DOMAIN values |->
                   [type |-> "Text", text |-> to_sql_string(values[i][2])]]]

\* self.conn.execute(&insert_sql, params_from_iter(param_values))
AddInsert(p) ==
    /\ call[p].pc = "add_insert"
    /\ UNCHANGED <<filterVars, coreVars>>
    /\ UNCHANGED <<schema, dims, hasStore>>
    /\ \/ /\ conn' = InsertOrReplace(conn, call[p].documents[call[p].k])
          /\ call' = [call EXCEPT ![p] =
                        [Issued(p) EXCEPT
                            !.pc = "add_rowid",
                            !.sent = <<insert(column_values(
                                          call[p].documents[call[p].k]))>>]]
          /\ UNCHANGED <<ret, faults, hist>>
       \/ Fault(p)

\* self.conn.query("SELECT last_insert_rowid()", ()) and rowid_result.next()
AddRowid(p) ==
    /\ call[p].pc = "add_rowid"
    /\ UNCHANGED <<filterVars, coreVars>>
    /\ UNCHANGED <<schema, dims, hasStore>>
    /\ \/ /\ conn' = conn
          /\ call' = [call EXCEPT ![p] =
                        [Issued(p) EXCEPT !.last_id = conn.lastRowid,
                                          !.j = 1, !.pc = "add_embedding"]]
          /\ UNCHANGED <<ret, faults, hist>>
       \/ Fault(p)

\* Where the loops of add_rows continue after embedding j of document k.
AfterEmbedding(c) ==
    IF c.j < Len(c.documents[c.k].embeddings)
    THEN [c EXCEPT !.j = c.j + 1]
    ELSE IF c.k < Len(c.documents)
         THEN [c EXCEPT !.k = c.k + 1, !.j = 0, !.pc = "add_insert"]
         ELSE [c EXCEPT !.j = 0, !.pc = "add_commit"]

\* self.conn.execute(&embeddings_sql, params![last_id, blob])
AddEmbedding(p) ==
    /\ call[p].pc = "add_embedding"
    /\ UNCHANGED <<filterVars, coreVars>>
    /\ UNCHANGED <<schema, dims, hasStore>>
    /\ \/ /\ EmbRowidTaken(conn, call[p].last_id)
          /\ Reject(p)
       \/ /\ ~EmbRowidTaken(conn, call[p].last_id)
          /\ conn' = InsertEmbedding(conn, call[p].last_id,
                         call[p].documents[call[p].k].embeddings[call[p].j])
          /\ call' = [call EXCEPT ![p] = AfterEmbedding(Issued(p))]
          /\ UNCHANGED <<ret, faults, hist>>
       \/ Fault(p)

\* self.conn.execute("COMMIT", ()) and Ok(last_id)
AddCommit(p) ==
    /\ call[p].pc = "add_commit"
    /\ UNCHANGED <<filterVars, coreVars>>
    /\ UNCHANGED <<schema, dims, hasStore>>
    /\ \/ /\ ~conn.inTxn
          /\ Reject(p)
       \/ /\ conn.inTxn
          /\ conn' = Commit(conn)
          /\ Return(p, Issued(p), TRUE, "none", "none", call[p].last_id, <<>>)
          /\ UNCHANGED faults
       \/ Fault(p)

\* The task awaiting add_rows is cancelled: the future is dropped at an
\* await point after its BEGIN was executed and before its COMMIT was.
\* Dropping it runs no statement; the rows it wrote since BEGIN are noted.
AddDrop(p) ==
    /\ call[p].op = "add_rows"
    /\ call[p].pc \in {"add_insert", "add_rowid", "add_embedding", "add_commit"}
    /\ UNCHANGED <<filterVars, coreVars>>
    /\ UNCHANGED <<schema, dims, conn, hasStore, faults>>
    /\ ret' = [ret EXCEPT ![p] =
                 [ok |-> FALSE, err |-> "none", cause |-> "dropped", value |-> 0,
                  rows |-> <<>>, call |-> call[p]]]
    /\ call' = [call EXCEPT ![p] = Idle]
    /\ hist' = [hist EXCEPT !.dropped = TRUE,
                            !.lost = @ \cup (conn.docs \ conn.saved.docs)]

\* ------------------------------------------------------ LibsqlSearchFilter
\* A condition string is kept as the sequence of its pieces: text that the
\* code writes itself, text it is handed (a key, a bound, a pattern), and the
\* placeholder "?" as a piece of its own.
MaxOps == 2                     \* combinators applied to build one filter
Keys == {"content"}             \* column names used as filter keys
\* serde_json::Value: its variant, for a Number the variant of its inner
\* representation N, and its JSON text.
JsonValues ==
    {[kind |-> "Null", n |-> "", text |-> "null"],
     [kind |-> "Bool", n |-> "", text |-> "true"],
     [kind |-> "Number", n |-> "PosInt", text |-> "1"],
     [kind |-> "Number", n |-> "Float", text |-> "1.5"],
     [kind |-> "String", n |-> "", text |-> "a"],
     [kind |-> "Array", n |-> "", text |-> "[1]"],
     [kind |-> "Object", n |-> "", text |-> "{}"]}
Ranges == {<<0, 1>>, <<1, 1>>}   \* range bounds handed to between
\* Patterns as the caller writes them: a quoted SQL literal, or the bare
\* single-character wildcard.
Patterns == {<<"'a?'">>, <<"?">>}

\* #[derive(Default)]: empty condition, no parameters.
Default == [condition |-> <<>>, params |-> <<>>]

eq(key, value) == [condition |-> <<key, " = ", "?">>, params |-> <<value>>]

gt(key, value) == [condition |-> <<key, " > ", "?">>, params |-> <<value>>]

lt(key, value) == [condition |-> <<key, " < ", "?">>, params |-> <<value>>]

and(self, rhs) ==
    [condition |-> <<"(">> \o self.condition \o <<") AND (">> \o
                   rhs.condition \o <<")">>,
     params |-> self.params \o rhs.params]

or(self, rhs) ==
    [condition |-> <<"(">> \o self.condition \o <<") OR (">> \o
                   rhs.condition \o <<")">>,
     params |-> self.params \o rhs.params]

not(self) ==
    [self EXCEPT !.condition = <<"NOT (">> \o self.condition \o <<")">>]

\* between with its bounds bound as parameters: "{key} between ? and ?".
between_bound(key, lo, hi) ==
    [condition |-> <<key, " between ", "?", " and ", "?">>,
     params |-> <<[kind |-> "Number", n |-> "PosInt", text |-> ToString(lo)],
                  [kind |-> "Number", n |-> "PosInt", text |-> ToString(hi)]>>]

\* format!("{key} between {lo} and {hi}") with the Display form of the bounds
between(key, lo, hi) ==
    [Default EXCEPT
       !.condition = <<key, " between ", ToString(lo), " and ", ToString(hi)>>]

is_null(key) == [Default EXCEPT !.condition = <<key, " is null">>]

is_not_null(key) == [Default EXCEPT !.condition = <<key, " is not null">>]

glob(key, pattern) == [Default EXCEPT !.condition = <<key, " glob ">> \o pattern]

like(key, pattern) == [Default EXCEPT !.condition = <<key, " like ">> \o pattern]

\* The filter a constructor call yields.
Build(c) ==
    CASE c.op = "eq" -> eq(c.key, c.value)
      [] c.op = "gt" -> gt(c.key, c.value)
      [] c.op = "lt" -> lt(c.key, c.value)
      [] c.op = "between" -> between(c.key, c.lo, c.hi)
      [] c.op = "is_null" -> is_null(c.key)
      [] c.op = "is_not_null" -> is_not_null(c.key)
      [] c.op = "glob" -> glob(c.key, c.pattern)
      [] c.op = "like" -> like(c.key, c.pattern)
      [] OTHER -> Default

\* The constructor calls whose filter is handed to and / or as the other
\* operand: with a parameter (eq of a number, of a string), without
\* (is_null), and with text of the caller's in the condition (glob).
Operands ==
    {[op |-> "eq", key |-> k, value |-> v] :
        k \in Keys, v \in {w \in JsonValues : w.text \in {"1", "a"}}} \cup
    {[op |-> "is_null", key |-> k] : k \in Keys} \cup
    {[op |-> "glob", key |-> k, pattern |-> pt] : k \in Keys, pt \in Patterns}

\* The filter of a behaviour is built by one constructor call; nothing is
\* applied to it yet, nothing compiled from it.
Built(c) ==
    /\ expr.op = "default"
    /\ filter' = Build(c)
    /\ expr' = c
    /\ nops' = 0
    /\ compiled' = <<>>
    /\ UNCHANGED <<storeVars, coreVars>>

\* A combinator was applied to the filter built so far.
Combined(f, e) ==
    /\ nops < MaxOps
    /\ filter' = f
    /\ expr' = e
    /\ nops' = nops + 1
    /\ compiled' = <<>>
    /\ UNCHANGED <<storeVars, coreVars>>

\* Positional placeholders of a condition string.
Placeholders(condition) ==
    Cardinality({i \in DOMAIN condition : condition[i] = "?"})

FilterEq == \E k \in Keys, v \in JsonValues :
    Built([op |-> "eq", key |-> k, value |-> v])

FilterGt == \E k \in Keys, v \in JsonValues :
    Built([op |-> "gt", key |-> k, value |-> v])

FilterLt == \E k \in Keys, v \in JsonValues :
    Built([op |-> "lt", key |-> k, value |-> v])

FilterBetween == \E k \in Keys, r \in Ranges :
    Built([op |-> "between", key |-> k, lo |-> r[1], hi |-> r[2]])

FilterIsNull == \E k \in Keys : Built([op |-> "is_null", key |-> k])

FilterIsNotNull == \E k \in Keys : Built([op |-> "is_not_null", key |-> k])

FilterGlob == \E k \in Keys, pt \in Patterns :
    Built([op |-> "glob", key |-> k, pattern |-> pt])

FilterLike == \E k \in Keys, pt \in Patterns :
    Built([op |-> "like", key |-> k, pattern |-> pt])

\* self.and(rhs), with the filter built so far on either side
FilterAnd == \E other \in Operands :
    \/ Combined(and(filter, Build(other)),
                [op |-> "and", l |-> expr, r |-> other])
    \/ Combined(and(Build(other), filter),
                [op |-> "and", l |-> other, r |-> expr])

\* self.or(rhs), with the filter built so far on either side
FilterOr == \E other \in Operands :
    \/ Combined(or(filter, Build(other)),
                [op |-> "or", l |-> expr, r |-> other])
    \/ Combined(or(Build(other), filter),
                [op |-> "or", l |-> other, r |-> expr])

\* self.not()
FilterNot == Combined(not(filter), [op |-> "not", a |-> expr])

\* fn convert(value: serde_json::Value) -> Result<libsql::Value, FilterError>:
\* Number::as_f64 is Some for every Number, whatever its representation, and
\* serde_json::to_vec of an array or a map of values does not fail.
convert(value) ==
    CASE value.kind = "Null" -> [type |-> "Null", text |-> "null"]
      [] value.kind = "Bool" ->
            [type |-> "Integer", text |-> IF value.text = "true" THEN "1" ELSE "0"]
      [] value.kind = "String" -> [type |-> "Text", text |-> value.text]
      [] value.kind = "Number" ->
            [type |-> "Real",
             text |-> IF value.n = "Float" THEN value.text ELSE value.text \o ".0"]
      [] OTHER -> [type |-> "Blob", text |-> value.text]

\* self.compile_params(): Ok(params), every parameter converted in order.
compile_params(self) ==
    [ok |-> TRUE, values |-> [i \in DOMAIN self.params |-> convert(self.params[i])]]

\* filter.clone().compile_params() on the filter built so far
FilterCompile ==
    /\ compiled = <<>>
    /\ compiled' = <<compile_params(filter)>>
    /\ UNCHANGED <<filter, nops, expr>>
    /\ UNCHANGED <<storeVars, coreVars>>

\* ------------------------------------------ LibsqlVectorIndex: top_n, top_n_ids
\* VectorSearchRequest: samples, optional threshold, query text, optional
\* filter.  The requests of top_n / top_n_ids calls carry no filter here.
Thresholds == {<<>>, <<-1>>}
\* One query text: the stored contents are at distance 0 and 1 of it, and
\* the other text gives the same distances with the contents exchanged.
Queries == {"a"}
Requests == [samples : 0..MaxSamples, threshold : Thresholds, query : Queries,
             filter : {<<>>}]
SearchOps == {"top_n", "top_n_ids"}

\* The record type D of top_n::<D>: "Document" deserializes from every row,
\* "Strict" has a content field that does not parse the text "b".
\* top_n_ids takes no record type.
Decoders(op) == IF op = "top_n" THEN {"Document", "Strict"} ELSE {"none"}

\* serde_json::from_value::<D>(Value::Object(map)) is Ok for the row.
Decodes(D, row) == D # "Strict" \/ row.content # "b"

\* e.distance of a stored vector for the query vector.
Distance(vec, query) == IF vec >= query THEN vec - query ELSE query - vec

\* req.threshold().unwrap_or(0.)
thresh(req) == IF req.threshold = <<>> THEN 0 ELSE req.threshold[1]

\* build_where_clause(req, query_vec): the WHERE clause and its parameters.
\* thresh.into() is a JSON number held as a float.
build_where_clause(req) ==
    LET base   == gt("e.distance", [kind |-> "Number", n |-> "Float",
                                    text |-> ToString(thresh(req))])
        f      == IF req.filter = <<>> THEN base ELSE and(base, req.filter[1])
    IN  [where_clause |-> <<"WHERE e.embedding MATCH ", "?", " AND k = ", "?",
                            " AND ">> \o f.condition,
         params |-> <<[type |-> "Blob", text |-> req.query],
                      [type |-> "Integer", text |-> ToString(req.samples)]>> \o
                    compile_params(f).values]

\* "e.embedding MATCH ?" without "AND k = ?": every stored vector.
NearestAll(embs, query, k) == {embs}

\* "e.embedding MATCH ? AND k = ?": the k stored vectors nearest to the query;
\* which of several equally distant vectors are taken is up to the engine.
Nearest(embs, query, k) ==
    {S \in SUBSET embs :
        /\ Cardinality(S) = (IF k < Cardinality(embs) THEN k ELSE Cardinality(embs))
        /\ \A e \in S : \A f \in embs \ S :
              Distance(e.vec, query) <= Distance(f.vec, query)}

\* ---- how the engine evaluates the condition of a WHERE clause on a row:
\* "T", "F" or "N" (NULL), or "E" when the text is no expression.
\* The texts that are compared, in the byte order of the BINARY collation.
TextOrder == <<"0", "1", "1.0", "1.5", "a", "b">>
Rank(text) == CHOOSE i \in DOMAIN TextOrder : TextOrder[i] = text
ParseInt(text) == CHOOSE n \in -1..1 : ToString(n) = text

Test(op, x, y) ==
    IF \/ op = " = " /\ x = y
       \/ op = " > " /\ x > y
       \/ op = " < " /\ x < y
    THEN "T" ELSE "F"

And3(l, r) ==
    IF l = "E" \/ r = "E" THEN "E"
    ELSE IF l = "F" \/ r = "F" THEN "F"
    ELSE IF l = "N" \/ r = "N" THEN "N" ELSE "T"

Or3(l, r) ==
    IF l = "E" \/ r = "E" THEN "E"
    ELSE IF l = "T" \/ r = "T" THEN "T"
    ELSE IF l = "N" \/ r = "N" THEN "N" ELSE "F"

Not3(v) == IF v = "T" THEN "F" ELSE IF v = "F" THEN "T" ELSE v

\* The i-th bound parameter; a placeholder without one is NULL.
Param(params, i) ==
    IF i <= Len(params) THEN params[i] ELSE [type |-> "Null", text |-> "null"]

\* key op ?: a comparison with NULL is NULL; e.distance is compared as a
\* number; `content` has TEXT affinity, so a number is compared by its text
\* and every text is less than a blob.
Compare(key, op, lit, row) ==
    IF lit.type = "Null" THEN "N"
    ELSE IF key = "e.distance" THEN Test(op, row.distance, ParseInt(lit.text))
    ELSE IF lit.type = "Blob" THEN (IF op = " < " THEN "T" ELSE "F")
    ELSE Test(op, Rank(row.content), Rank(lit.text))

\* A condition without parentheses around it: one predicate on one column.
Predicate(cond, params, row) ==
    IF Len(cond) = 3 /\ cond[2] \in {" = ", " > ", " < "} /\ cond[3] = "?"
    THEN Compare(cond[1], cond[2], Param(params, 1), row)
    ELSE IF Len(cond) = 2 /\ cond[2] = " is null" THEN "F"
    ELSE IF Len(cond) = 2 /\ cond[2] = " is not null" THEN "T"
    ELSE IF Len(cond) = 5 /\ cond[2] = " between "
    THEN And3(Not3(Test(" < ", Rank(row.content), Rank(cond[3]))),
              Not3(Test(" > ", Rank(row.content), Rank(cond[5]))))
    ELSE IF Len(cond) = 3 /\ cond[2] \in {" glob ", " like "}
    THEN (IF cond[3] = "?" THEN "N" ELSE "F")
    ELSE "E"

\* Parentheses opened less parentheses closed by the pieces a..b.
Net(cond, a, b) ==
    Cardinality({k \in a..b : cond[k] \in {"(", "NOT ("}}) -
    Cardinality({k \in a..b : cond[k] = ")"})

\* Where the operator of "(" l ") AND (" r ")" stands; 0 if nowhere.
Split(cond) ==
    LET at == {i \in 2..(Len(cond) - 1) :
                  /\ cond[i] \in {") AND (", ") OR ("}
                  /\ Net(cond, 2, i - 1) = 0}
    IN  IF at = {} THEN 0 ELSE CHOOSE i \in at : \A k \in at : i <= k

RECURSIVE Eval(_, _, _)
Eval(cond, params, row) ==
    IF cond = <<>> THEN "E"
    ELSE IF cond[1] = "(" /\ cond[Len(cond)] = ")" /\ Split(cond) # 0
    THEN LET i == Split(cond)
             l == SubSeq(cond, 2, i - 1)
             r == SubSeq(cond, i + 1, Len(cond) - 1)
             rest == SubSeq(params, Placeholders(l) + 1, Len(params))
         IN  IF cond[i] = ") AND ("
             THEN And3(Eval(l, params, row), Eval(r, rest, row))
             ELSE Or3(Eval(l, params, row), Eval(r, rest, row))
    ELSE IF cond[1] = "NOT (" /\ cond[Len(cond)] = ")"
    THEN Not3(Eval(SubSeq(cond, 2, Len(cond) - 1), params, row))
    ELSE Predicate(cond, params, row)

\* What follows "WHERE e.embedding MATCH ? AND k = ? AND " and its parameters.
Condition(w) == SubSeq(w.where_clause, 6, Len(w.where_clause))
Bound(w) == SubSeq(w.params, 3, Len(w.params))

\* The engine refuses the statement: its WHERE clause is no expression.
Refused(w) ==
    Eval(Condition(w), Bound(w), [distance |-> 0, content |-> "a"]) = "E"

\* "FROM {table_name}_embeddings e JOIN {table_name} d ON e.rowid = d.rowid
\*  {where_clause}": the rows of the join, over the k nearest vectors S, for
\* which the condition is true.
Joined(c, S, req) ==
    LET w == build_where_clause(req)
    IN  {row \in {[distance |-> Distance(x[1].vec, Embed(req.query)),
                   id |-> x[2].id, content |-> x[2].content,
                   rowid |-> x[1].rowid] :
                      x \in {y \in S \X c.docs : y[1].rowid = y[2].rowid}} :
            Eval(Condition(w), Bound(w), row) = "T"}

\* The rows of R in any order: the statement without its ORDER BY.
Unordered(R) ==
    {s \in [1..Cardinality(R) -> R] :
        \A i, j \in 1..Cardinality(R) : i < j => s[i] # s[j]}

\* "ORDER BY e.distance": every ordering of R by ascending distance.
Ordered(R) ==
    {s \in [1..Cardinality(R) -> R] :
        /\ \A i, j \in 1..Cardinality(R) : i < j =>
              /\ s[i] # s[j]
              /\ s[i].distance <= s[j].distance}

\* The row loops: top_n pushes (distance, id, doc) for the rows that D
\* deserializes from and skips the others, with row.get(0), the value of the
\* first declared column, as id; top_n_ids pushes (distance, id).
Project(op, D, s) ==
    IF op = "top_n"
    THEN LET kept == SelectSeq(s, LAMBDA row : Decodes(D, row))
         IN  [i \in 1..Len(kept) |->
                 [distance |-> kept[i].distance,
                  id |-> IF schema.idFirst THEN kept[i].id ELSE kept[i].content,
                  doc |-> [id |-> kept[i].id, content |-> kept[i].content]]]
    ELSE [i \in 1..Len(s) |-> [distance |-> s[i].distance, id |-> s[i].id]]

\* The rows the query of a request may yield on the connection, in order.
QueryRows(c, req) ==
    UNION {Ordered(Joined(c, S, req)) :
              S \in Nearest(c.embs, Embed(req.query), req.samples)}

\* What a call may return on the connection once its query is answered.
QueryResults(c, op, D, req) == {Project(op, D, s) : s \in QueryRows(c, req)}

\* let value: String = row.get(i)?: fails on the NULL of a declared column
\* that column_values() does not report, for the first row top_n reads.
GetFails(op, s) == op = "top_n" /\ ~schema.reported /\ s # <<>>

\* top_n / top_n_ids is called on an index built from a store.
SearchCall(p) ==
    /\ call[p].pc = "idle"
    /\ UNCHANGED <<filterVars, coreVars>>
    /\ hasStore
    /\ \E op \in SearchOps, req \in Requests :
         \E D \in Decoders(op) :
            call' = [call EXCEPT ![p] =
                       [Start(op) EXCEPT !.pc = "search_embed", !.req = req,
                                         !.D = D]]
    /\ ret' = [ret EXCEPT ![p] = NoRet]
    /\ UNCHANGED <<schema, dims, conn, hasStore, faults, hist>>

\* top_n / top_n_ids is called with a request that carries the filter built
\* so far, asks for as many samples as the table has rows and sets a
\* threshold below every distance.
SearchFiltered(p) ==
    /\ call[p].pc = "idle"
    /\ expr.op # "default"
    /\ UNCHANGED <<filterVars, coreVars>>
    /\ hasStore
    /\ \E op \in SearchOps :
         \E D \in Decoders(op) :
            call' = [call EXCEPT ![p] =
                       [Start(op) EXCEPT
                           !.pc = "search_embed", !.D = D,
                           !.req = [samples |-> Cardinality(conn.docs),
                                    threshold |-> <<-1>>, query |-> "a",
                                    filter |-> <<filter>>]]]
    /\ ret' = [ret EXCEPT ![p] = NoRet]
    /\ UNCHANGED <<schema, dims, conn, hasStore, faults, hist>>

\* top_n_ids is called with a request that carries the filter built so far,
\* with or without a threshold.
SearchCarrying(p) ==
    /\ call[p].pc = "idle"
    /\ expr.op # "default"
    /\ UNCHANGED <<filterVars, coreVars>>
    /\ hasStore
    /\ \E threshold \in Thresholds :
         call' = [call EXCEPT ![p] =
                    [Start("top_n_ids") EXCEPT
                        !.pc = "search_embed",
                        !.req = [samples |-> MaxSamples, threshold |-> threshold,
                                 query |-> "a", filter |-> <<filter>>]]]
    /\ ret' = [ret EXCEPT ![p] = NoRet]
    /\ UNCHANGED <<schema, dims, conn, hasStore, faults, hist>>

\* The embedding of the query awaited after the statement was sent.
SearchEmbedLate(p) ==
    /\ call[p].pc = "search_embed"
    /\ UNCHANGED <<filterVars, coreVars>>
    /\ UNCHANGED <<schema, dims, conn, hasStore, faults>>
    /\ \/ /\ call' = [call EXCEPT ![p].pc = "search_query", ![p].embedded = TRUE]
          /\ UNCHANGED <<ret, hist>>
       \/ Return(p, [Issued(p) EXCEPT !.embedded = TRUE],
                 FALSE, "EmbeddingError", "embed", 0, <<>>)

\* self.embedding_model.embed_text(req.query()).await?
SearchEmbed(p) ==
    /\ call[p].pc = "search_embed"
    /\ UNCHANGED <<filterVars, coreVars>>
    /\ UNCHANGED <<schema, dims, conn, hasStore, faults>>
    /\ \/ /\ call' = [call EXCEPT ![p].pc = "search_query", ![p].embedded = TRUE]
          /\ UNCHANGED <<ret, hist>>
       \/ Return(p, [call[p] EXCEPT !.embedded = TRUE],
                 FALSE, "EmbeddingError", "embed", 0, <<>>)

\* build_where_clause, self.store.conn.query(&query_sql, ...) and the row loop
SearchQuery(p) ==
    /\ call[p].pc = "search_query"
    /\ UNCHANGED <<filterVars, coreVars>>
    /\ UNCHANGED <<schema, dims, hasStore>>
    /\ \/ /\ Refused(build_where_clause(call[p].req))
          /\ Reject(p)
       \/ /\ ~Refused(build_where_clause(call[p].req))
          /\ conn' = conn
          /\ UNCHANGED faults
          /\ \E s \in QueryRows(conn, call[p].req) :
                IF GetFails(call[p].op, s)
                THEN Return(p, Issued(p), FALSE, "DatastoreError", "get", 0, <<>>)
                ELSE Return(p, [Issued(p) EXCEPT
                                  !.sent = <<build_where_clause(call[p].req)>>],
                            TRUE, "none", "none", 0,
                            Project(call[p].op, call[p].D, s))
       \/ Fault(p)

\* ------------------------------- rig-core agent/skill.rs: SimpleSkillBuilder
MaxCalls == 3                   \* builder methods called before build
Names == {"n1", "n2"}           \* arguments of name
Descriptions == {"d1"}          \* arguments of description
Preambles == {"p1", "p2"}       \* arguments of preamble
Tools == {"t1", "t2"}           \* the boxed tools handed to tool / tools
ToolLists == {<<>>, <<"t1">>, <<"t2", "t1">>}
DocIds == {"doc1", "doc2"}      \* ids of context documents
DocTexts == {"Test document"}
\* Document { id, text, additional_props: HashMap::new() }
Document(id, text) == [id |-> id, text |-> text]
DocLists == {<<>>, <<Document("doc2", "Test document")>>,
             <<Document("doc1", "Test document"),
               Document("doc2", "Test document")>>}

\* SimpleSkillBuilder::new()
SimpleSkillBuilder_new ==
    [name |-> <<>>, description |-> "", tools |-> <<>>, preamble |-> <<>>,
     context_documents |-> <<>>]

\* No build() was called yet.
NotBuilt == [state |-> "none"]

\* A builder method takes self and returns the changed builder.
Chained(m, v, next) ==
    /\ skill.state = "none"
    /\ Len(calls) < MaxCalls
    /\ builder' = next
    /\ calls' = Append(calls, [m |-> m, v |-> v])
    /\ UNCHANGED <<skill, components, response, converted>>
    /\ UNCHANGED <<storeVars, filterVars>>

\* pub fn name(mut self, name): self.name = Some(name.into())
BuilderName == \E name \in Names :
    Chained("name", name, [builder EXCEPT !.name = <<name>>])

\* pub fn description(mut self, description)
BuilderDescription == \E description \in Descriptions :
    Chained("description", description,
            [builder EXCEPT !.description = description])

\* pub fn tool(mut self, tool): self.tools.push(tool)
BuilderTool == \E tool \in Tools :
    Chained("tool", tool, [builder EXCEPT !.tools = Append(@, tool)])

\* self.tools = tools: the vector handed in replaces the tools added so far.
BuilderToolsReplaced == \E tools \in ToolLists :
    Chained("tools", tools, [builder EXCEPT !.tools = tools])

\* pub fn tools(mut self, tools): self.tools.extend(tools)
BuilderTools == \E tools \in ToolLists :
    Chained("tools", tools, [builder EXCEPT !.tools = @ \o tools])

\* pub fn preamble(mut self, preamble): self.preamble = Some(preamble.into())
BuilderPreamble == \E preamble \in Preambles :
    Chained("preamble", preamble, [builder EXCEPT !.preamble = <<preamble>>])

\* pub fn context_document(mut self, id, text): push(Document { id, text, .. })
BuilderContextDocument == \E id \in DocIds, text \in DocTexts :
    Chained("context_document", Document(id, text),
            [builder EXCEPT !.context_documents = Append(@, Document(id, text))])

\* pub fn context_documents(mut self, documents): extend(documents)
BuilderContextDocuments == \E documents \in DocLists :
    Chained("context_documents", documents,
            [builder EXCEPT !.context_documents = @ \o documents])

\* name: self.name.unwrap_or_default(): a builder without a name builds a
\* skill with the empty name.
SkillBuildUnnamed ==
    /\ skill.state = "none"
    /\ skill' = [state |-> "built",
                 name |-> IF builder.name = <<>> THEN "" ELSE builder.name[1],
                 description |-> builder.description,
                 tools |-> builder.tools,
                 preamble |-> builder.preamble,
                 context_documents |-> builder.context_documents]
    /\ UNCHANGED <<builder, calls, components, response, converted>>
    /\ UNCHANGED <<storeVars, filterVars>>

\* pub fn build(self) -> SimpleSkill, with
\* name: self.name.expect("Skill name is required")
SkillBuild ==
    /\ skill.state = "none"
    /\ skill' = IF builder.name = <<>>
                THEN [state |-> "panic", message |-> "Skill name is required"]
                ELSE [state |-> "built",
                      name |-> builder.name[1],
                      description |-> builder.description,
                      tools |-> builder.tools,
                      preamble |-> builder.preamble,
                      context_documents |-> builder.context_documents]
    /\ UNCHANGED <<builder, calls, components, response, converted>>
    /\ UNCHANGED <<storeVars, filterVars>>

\* fn into_components(self) -> SkillComponents
IntoComponents ==
    /\ skill.state = "built"
    /\ components = <<>>
    /\ components' = <<[tools |-> skill.tools, preamble |-> skill.preamble,
                        context_documents |-> skill.context_documents]>>
    /\ UNCHANGED <<builder, calls, skill, response, converted>>
    /\ UNCHANGED <<storeVars, filterVars>>

\* ------------- rig-core providers/siliconflow/image_generation.rs: try_from
MaxData == 2                    \* entries of ImageGenerationResponse::data
\* The value of a symbol of the standard base64 alphabet; -1 for '=' and
\* for a character outside the alphabet.
Sextet(ch) ==
    CASE ch = "A" -> 0 [] ch = "B" -> 1 [] ch = "Q" -> 16 [] ch = "g" -> 32
      [] OTHER -> -1

\* b64_json texts, as their characters: "", "QQ==", "QUJB", "QUE=", "QQ"
\* (padding missing), "QB==" (bits set after the last byte), "!Q==", "Q=Q=".
B64Texts ==
    {<<>>, <<"Q", "Q", "=", "=">>, <<"Q", "Q", "A", "Q">>,
     <<"Q", "Q", "A", "=">>, <<"Q", "Q">>, <<"Q", "B", "=", "=">>,
     <<"!", "Q", "=", "=">>, <<"Q", "=", "Q", "=">>}

\* BASE64_STANDARD.decode of one quantum of four characters: the bytes, or
\* an error for a symbol outside the alphabet, misplaced or missing padding,
\* or bits set beyond the last byte.
DecodeQuantum(q) ==
    LET v == [i \in 1..4 |-> Sextet(q[i])]
        b1 == v[1] * 4 + v[2] \div 16
        b2 == (v[2] % 16) * 16 + v[3] \div 4
        b3 == (v[3] % 4) * 64 + v[4]
    IN  IF v[1] < 0 \/ v[2] < 0 THEN [ok |-> FALSE, bytes |-> <<>>]
        ELSE IF q[3] = "=" /\ q[4] = "="
        THEN [ok |-> v[2] % 16 = 0, bytes |-> IF v[2] % 16 = 0 THEN <<b1>> ELSE <<>>]
        ELSE IF v[3] < 0 THEN [ok |-> FALSE, bytes |-> <<>>]
        ELSE IF q[4] = "="
        THEN [ok |-> v[3] % 4 = 0,
              bytes |-> IF v[3] % 4 = 0 THEN <<b1, b2>> ELSE <<>>]
        ELSE IF v[4] < 0 THEN [ok |-> FALSE, bytes |-> <<>>]
        ELSE [ok |-> TRUE, bytes |-> <<b1, b2, b3>>]

\* BASE64_STANDARD.decode(&b64_json) for a text of at most one quantum.
decode(text) ==
    IF text = <<>> THEN [ok |-> TRUE, bytes |-> <<>>]
    ELSE IF Len(text) # 4 THEN [ok |-> FALSE, bytes |-> <<>>]
    ELSE DecodeQuantum(text)

\* ImageGenerationResponse { created, data: Vec<ImageGenerationData> }
Responses ==
    {[created |-> 0, data |-> [i \in DOMAIN f |-> [b64_json |-> f[i]]]] :
        f \in UNION {[1..n -> B64Texts] : n \in 0..MaxData}}

\* No response was received / nothing was converted.
NoResponse == [created |-> 0, data |-> <<>>]

\* fn try_from(value: ImageGenerationResponse) -> Result<Self, Self::Error>:
\* value.data[0] panics when data is empty.
try_from(value) ==
    IF value.data = <<>>
    THEN [state |-> "panic", message |-> "index out of bounds"]
    ELSE LET bytes == decode(value.data[1].b64_json)
         IN  IF bytes.ok
             THEN [state |-> "Ok", image |-> bytes.bytes, response |-> value]
             ELSE [state |-> "Err", error |-> "ResponseError"]

\* The provider's response is converted once.
TryFrom ==
    /\ converted = <<>>
    /\ converted' = <<try_from(response)>>
    /\ UNCHANGED <<builder, calls, skill, components, response>>
    /\ UNCHANGED <<storeVars, filterVars>>

\* The variables of rig-core where no skill is built and no image converted.
CoreUnused ==
    /\ builder = SimpleSkillBuilder_new
    /\ calls = <<>>
    /\ skill = NotBuilt
    /\ components = <<>>
    /\ response = NoResponse
    /\ converted = <<>>

\* ------------------------------------------------------------ specification
Init ==
    /\ schema \in {c \in Column : c.reported /\ c.idFirst}
    /\ dims \in {0, MaxDims}
    /\ conn = [inTxn |-> FALSE, tables |-> {}, docs |-> {}, embs |-> {},
               lastRowid |-> 0, saved |-> NoSnap]
    /\ hasStore = FALSE
    /\ call = [p \in Callers |-> Idle]
    /\ ret = [p \in Callers |-> NoRet]
    /\ faults = 0
    /\ hist = [items |-> 0, addFailed |-> FALSE, dropped |-> FALSE, lost |-> {}]
    /\ filter = Default
    /\ nops = 0
    /\ expr = [op |-> "default"]
    /\ compiled = <<>>
    /\ CoreUnused

\* One caller provisions and ingests: every call runs to its return before
\* the next one starts.
Next ==
    \/ \E p \in SeqCallers : NewCall(p)
    \/ \E p \in SeqCallers : NewBegin(p)
    \/ \E p \in SeqCallers : NewCreateTable(p)
    \/ \E p \in SeqCallers : NewCreateIndex(p)
    \/ \E p \in SeqCallers : NewCreateEmbeddings(p)
    \/ \E p \in SeqCallers : NewCommit(p)
    \/ \E p \in SeqCallers : AddRowsCall(p)
    \/ \E p \in SeqCallers : AddBegin(p)
    \/ \E p \in SeqCallers : AddInsert(p)
    \/ \E p \in SeqCallers : AddRowid(p)
    \/ \E p \in SeqCallers : AddEmbedding(p)
    \/ \E p \in SeqCallers : AddCommit(p)

Spec == Init /\ [][Next]_vars

\* The setup of the integration test: id TEXT PRIMARY KEY, content TEXT not
\* indexed and both reported by column_values(), an embedding model of
\* ndims() > 0, a fresh in-memory database.
InitTest ==
    /\ schema = [idUnique |-> TRUE, indexed |-> FALSE, reserved |-> FALSE,
                 reported |-> TRUE, idFirst |-> TRUE]
    /\ dims = MaxDims
    /\ conn = [inTxn |-> FALSE, tables |-> {}, docs |-> {}, embs |-> {},
               lastRowid |-> 0, saved |-> NoSnap]
    /\ hasStore = FALSE
    /\ call = [p \in Callers |-> Idle]
    /\ ret = [p \in Callers |-> NoRet]
    /\ faults = 0
    /\ hist = [items |-> 0, addFailed |-> FALSE, dropped |-> FALSE, lost |-> {}]
    /\ filter = Default
    /\ nops = 0
    /\ expr = [op |-> "default"]
    /\ compiled = <<>>
    /\ CoreUnused

\* One caller provisions, ingests and searches.
NextSearch ==
    \/ Next
    \/ \E p \in SeqCallers : SearchCall(p)
    \/ \E p \in SeqCallers : SearchEmbed(p)
    \/ \E p \in SeqCallers : SearchQuery(p)

SpecSearch == InitTest /\ [][NextSearch]_vars

\* Record types other than the one of the integration test: column_values()
\* may leave a declared column out, schema() may declare `id` after `content`.
InitRecords ==
    /\ schema \in {c \in Column : c.idUnique /\ ~c.indexed /\ ~c.reserved}
    /\ dims = MaxDims
    /\ conn = [inTxn |-> FALSE, tables |-> {}, docs |-> {}, embs |-> {},
               lastRowid |-> 0, saved |-> NoSnap]
    /\ hasStore = FALSE
    /\ call = [p \in Callers |-> Idle]
    /\ ret = [p \in Callers |-> NoRet]
    /\ faults = 0
    /\ hist = [items |-> 0, addFailed |-> FALSE, dropped |-> FALSE, lost |-> {}]
    /\ filter = Default
    /\ nops = 0
    /\ expr = [op |-> "default"]
    /\ compiled = <<>>
    /\ CoreUnused

SpecRecords == InitRecords /\ [][NextSearch]_vars

\* Provisioning and ingestion of records of those types.
SpecIngest == InitRecords /\ [][Next]_vars

\* Clones of the store share its libsql::Connection: the calls of several
\* callers interleave at their await points on the one connection.
\* One clone provisions and ingests while an index built from another
\* answers searches.
Writers == {1}
Readers == Callers \ Writers
NextShared ==
    \/ \E p \in Writers : NewCall(p)
    \/ \E p \in Writers : NewBegin(p)
    \/ \E p \in Writers : NewCreateTable(p)
    \/ \E p \in Writers : NewCreateIndex(p)
    \/ \E p \in Writers : NewCreateEmbeddings(p)
    \/ \E p \in Writers : NewCommit(p)
    \/ \E p \in Writers : AddRowsCall(p)
    \/ \E p \in Writers : AddBegin(p)
    \/ \E p \in Writers : AddInsert(p)
    \/ \E p \in Writers : AddRowid(p)
    \/ \E p \in Writers : AddEmbedding(p)
    \/ \E p \in Writers : AddCommit(p)
    \/ \E p \in Readers : SearchCall(p)
    \/ \E p \in Readers : SearchEmbed(p)
    \/ \E p \in Readers : SearchQuery(p)

\* The store of the integration test on an engine that fails no statement.
InitShared ==
    /\ schema = [idUnique |-> TRUE, indexed |-> FALSE, reserved |-> FALSE,
                 reported |-> TRUE, idFirst |-> TRUE]
    /\ dims = MaxDims
    /\ conn = [inTxn |-> FALSE, tables |-> {}, docs |-> {}, embs |-> {},
               lastRowid |-> 0, saved |-> NoSnap]
    /\ hasStore = FALSE
    /\ call = [p \in Callers |-> Idle]
    /\ ret = [p \in Callers |-> NoRet]
    /\ faults = MaxFaults
    /\ hist = [items |-> 0, addFailed |-> FALSE, dropped |-> FALSE, lost |-> {}]
    /\ filter = Default
    /\ nops = 0
    /\ expr = [op |-> "default"]
    /\ compiled = <<>>
    /\ CoreUnused

SpecShared == InitShared /\ [][NextShared]_vars

\* The store of the integration test after new(): the tables exist and
\* are empty.
InitProvisioned ==
    /\ schema = [idUnique |-> TRUE, indexed |-> FALSE, reserved |-> FALSE,
                 reported |-> TRUE, idFirst |-> TRUE]
    /\ dims = MaxDims
    /\ conn = [inTxn |-> FALSE, tables |-> {"documents", "idx_id", "embeddings"},
               docs |-> {}, embs |-> {}, lastRowid |-> 0, saved |-> NoSnap]
    /\ hasStore = TRUE
    /\ call = [p \in Callers |-> Idle]
    /\ ret = [p \in Callers |-> NoRet]
    /\ faults = 0
    /\ hist = [items |-> 0, addFailed |-> FALSE, dropped |-> FALSE, lost |-> {}]
    /\ filter = Default
    /\ nops = 0
    /\ expr = [op |-> "default"]
    /\ compiled = <<>>
    /\ CoreUnused

\* Clones of the store ingest concurrently on the one connection.
NextWriters ==
    \/ \E p \in Callers : AddRowsCall(p)
    \/ \E p \in Callers : AddBegin(p)
    \/ \E p \in Callers : AddInsert(p)
    \/ \E p \in Callers : AddRowid(p)
    \/ \E p \in Callers : AddEmbedding(p)
    \/ \E p \in Callers : AddCommit(p)

SpecWriters == InitProvisioned /\ [][NextWriters]_vars

\* One caller provisions, ingests and searches on an engine that fails no
\* statement; the task awaiting an add_rows call may be cancelled.
NextCancel ==
    \/ \E p \in SeqCallers : NewCall(p)
    \/ \E p \in SeqCallers : NewBegin(p)
    \/ \E p \in SeqCallers : NewCreateTable(p)
    \/ \E p \in SeqCallers : NewCreateIndex(p)
    \/ \E p \in SeqCallers : NewCreateEmbeddings(p)
    \/ \E p \in SeqCallers : NewCommit(p)
    \/ \E p \in SeqCallers : AddRowsCall(p)
    \/ \E p \in SeqCallers : AddBegin(p)
    \/ \E p \in SeqCallers : AddInsert(p)
    \/ \E p \in SeqCallers : AddRowid(p)
    \/ \E p \in SeqCallers : AddEmbedding(p)
    \/ \E p \in SeqCallers : AddCommit(p)
    \/ \E p \in SeqCallers : AddDrop(p)
    \/ \E p \in SeqCallers : SearchCall(p)
    \/ \E p \in SeqCallers : SearchEmbed(p)
    \/ \E p \in SeqCallers : SearchQuery(p)

SpecCancel == InitShared /\ [][NextCancel]_vars

\* Building filters with the public constructors and combinators, starting
\* from LibsqlSearchFilter::default(); the store is left alone.
NextFilter ==
    \/ FilterEq
    \/ FilterGt
    \/ FilterLt
    \/ FilterBetween
    \/ FilterIsNull
    \/ FilterIsNotNull
    \/ FilterGlob
    \/ FilterLike
    \/ FilterAnd
    \/ FilterOr
    \/ FilterNot
    \/ FilterCompile

SpecFilter == InitTest /\ [][NextFilter]_vars

\* The fixture table: the store of the integration test after new() and one
\* add_rows of a document per content, each with one embedding; the engine
\* fails no statement.
Fixture ==
    [inTxn |-> FALSE, tables |-> {"documents", "idx_id", "embeddings"},
     docs |-> {[id |-> "x", content |-> "a", rowid |-> 1],
               [id |-> "y", content |-> "b", rowid |-> 2]},
     embs |-> {[rowid |-> 1, vec |-> Embed("a")], [rowid |-> 2, vec |-> Embed("b")]},
     lastRowid |-> 2, saved |-> NoSnap]

InitFixture ==
    /\ schema = [idUnique |-> TRUE, indexed |-> FALSE, reserved |-> FALSE,
                 reported |-> TRUE, idFirst |-> TRUE]
    /\ dims = MaxDims
    /\ conn = Fixture
    /\ hasStore = TRUE
    /\ call = [p \in Callers |-> Idle]
    /\ ret = [p \in Callers |-> NoRet]
    /\ faults = MaxFaults
    /\ hist = [items |-> Cardinality(Fixture.docs), addFailed |-> FALSE,
               dropped |-> FALSE, lost |-> {}]
    /\ filter = Default
    /\ nops = 0
    /\ expr = [op |-> "default"]
    /\ compiled = <<>>
    /\ CoreUnused

\* Filters are built from eq, gt, lt, and, or, not and carried by searches
\* over the fixture.
NextRoundTrip ==
    \/ FilterEq
    \/ FilterGt
    \/ FilterLt
    \/ FilterAnd
    \/ FilterOr
    \/ FilterNot
    \/ \E p \in SeqCallers : SearchFiltered(p)
    \/ \E p \in SeqCallers : SearchEmbed(p)
    \/ \E p \in SeqCallers : SearchQuery(p)

SpecRoundTrip == InitFixture /\ [][NextRoundTrip]_vars

\* Filters built with any constructor are carried by searches over the
\* fixture.
NextWhere ==
    \/ FilterEq
    \/ FilterGt
    \/ FilterLt
    \/ FilterBetween
    \/ FilterIsNull
    \/ FilterIsNotNull
    \/ FilterGlob
    \/ FilterLike
    \/ FilterAnd
    \/ FilterOr
    \/ FilterNot
    \/ \E p \in SeqCallers : SearchCarrying(p)
    \/ \E p \in SeqCallers : SearchEmbed(p)
    \/ \E p \in SeqCallers : SearchQuery(p)

SpecWhere == InitFixture /\ [][NextWhere]_vars

\* The variables of rig-libsql where no store is created and no filter built.
StoreUnused ==
    /\ schema = [idUnique |-> TRUE, indexed |-> FALSE, reserved |-> FALSE,
                 reported |-> TRUE, idFirst |-> TRUE]
    /\ dims = MaxDims
    /\ conn = [inTxn |-> FALSE, tables |-> {}, docs |-> {}, embs |-> {},
               lastRowid |-> 0, saved |-> NoSnap]
    /\ hasStore = FALSE
    /\ call = [p \in Callers |-> Idle]
    /\ ret = [p \in Callers |-> NoRet]
    /\ faults = 0
    /\ hist = [items |-> 0, addFailed |-> FALSE, dropped |-> FALSE, lost |-> {}]
    /\ filter = Default
    /\ nops = 0
    /\ expr = [op |-> "default"]
    /\ compiled = <<>>

\* SimpleSkill::builder(), then builder methods, build and into_components.
InitSkill ==
    /\ StoreUnused
    /\ CoreUnused

NextSkill ==
    \/ BuilderName
    \/ BuilderDescription
    \/ BuilderTool
    \/ BuilderTools
    \/ BuilderPreamble
    \/ BuilderContextDocument
    \/ BuilderContextDocuments
    \/ SkillBuild
    \/ IntoComponents

SpecSkill == InitSkill /\ [][NextSkill]_vars

\* A response of the provider, deserialized, is converted.
InitImage ==
    /\ StoreUnused
    /\ builder = SimpleSkillBuilder_new
    /\ calls = <<>>
    /\ skill = NotBuilt
    /\ components = <<>>
    /\ response \in Responses
    /\ converted = <<>>

NextImage == TryFrom

SpecImage == InitImage /\ [][NextImage]_vars

\* ------------------------------------------------------------------ claims
\* Caller p is between calls and its last finished call was an `op`.
Done(p, op) == call[p].pc = "idle" /\ ret[p].call.op = op

\* Rows of the document table, as the connection sees them, with logical id.
RowsOf(id) == {r \in conn.docs : r.id = id}

\* Content of the last document of a batch that carries the id.
LastOf(documents, id) ==
    documents[Max({i \in DOMAIN documents : documents[i].id = id})].content

\* C1 (as claimed): when add_rows returns an error raised by a statement of
\* some item (the upsert, the last_insert_rowid query or an embedding insert),
\* the document and embedding tables hold exactly the rows they held before
\* the call.
C1_BatchAtomicity ==
    \A p \in Callers :
        (/\ Done(p, "add_rows")
         /\ ~ret[p].ok
         /\ ret[p].call.pc \in {"add_insert", "add_rowid", "add_embedding"})
        => /\ conn.docs = ret[p].call.pre.docs
           /\ conn.embs = ret[p].call.pre.embs

\* C2 (as claimed): whenever an add_rows call that opened a transaction has
\* returned, Ok or Err, the connection is no longer inside a transaction.
C2_TransactionClosed ==
    \A p \in Callers :
        (Done(p, "add_rows") /\ ret[p].call.pc # "add_begin") => ~conn.inTxn

\* Upsert identity: while every add_rows call so far has succeeded and no call
\* is in flight, no two rows share a logical id, and after a batch each of its
\* ids has exactly one row, holding the content of the last document ingested
\* under that id.
UpsertIdentity ==
    (~hist.addFailed /\ \A q \in Callers : call[q].pc = "idle") =>
        /\ \A id \in Ids : Cardinality(RowsOf(id)) <= 1
        /\ \A p \in Callers :
              (Done(p, "add_rows") /\ ret[p].ok) =>
                  \A i \in DOMAIN ret[p].call.documents :
                      LET id == ret[p].call.documents[i].id
                      IN  {r.content : r \in RowsOf(id)} =
                              {LastOf(ret[p].call.documents, id)}

C4_ManyEmbeddings ==
    \A p \in Callers :
        Done(p, "add_rows") =>
            /\ (ret[p].ok /\ ret[p].call.documents # <<>>) =>
                   Cardinality({e \in conn.embs : e.rowid = ret[p].value}) =
                   Len(ret[p].call.documents[Len(ret[p].call.documents)].embeddings)
            /\ (~ret[p].ok /\ ret[p].cause = "reject") =>
                   ret[p].call.pc # "add_embedding"

\* C5 (as claimed): while every add_rows call so far has succeeded and no call
\* is in flight, every row of the embedding table references the physical
\* row identifier of a document row that exists.
C5_NoOrphanedEmbeddings ==
    (~hist.addFailed /\ \A p \in Callers : call[p].pc = "idle") =>
        \A e \in conn.embs : \E d \in conn.docs : d.rowid = e.rowid

\* C6: a call of new made when an earlier new has returned Ok, on a connection
\* that is not inside a transaction, returns Ok unless the engine fails one of
\* its statements, and leaves tables, indexes and rows as they were.
C6_IdempotentProvisioning ==
    \A p \in Callers :
        (/\ Done(p, "new")
         /\ ret[p].call.preStore /\ ~ret[p].call.preTxn
         /\ ret[p].cause # "fault")
        => /\ ret[p].ok
           /\ View(conn) = ret[p].call.pre
           /\ ~conn.inTxn

\* C6 witness: a second new returned Ok on a store that already held rows.
C6_Witness ==
    \E p \in Callers :
        /\ Done(p, "new") /\ ret[p].ok
        /\ ret[p].call.preStore
        /\ ret[p].call.pre.docs # {} /\ ret[p].call.pre.embs # {}

\* C7 (as claimed): when new returns an error raised by one of its creation
\* statements, no object created by the call is visible and the connection
\* is not inside a transaction.
C7_ProvisioningAllOrNothing ==
    \A p \in Callers :
        (/\ Done(p, "new")
         /\ ~ret[p].ok
         /\ ret[p].call.pc \in {"new_table", "new_index", "new_embeddings"})
        => /\ conn.tables = ret[p].call.pre.tables
           /\ ~conn.inTxn

\* C8 (as claimed): with ndims() = 0 or a column named by a reserved
\* identifier, new returns a schema error without having issued a statement
\* (calls ended by an engine failure left aside).
C8_ProvisioningValidates ==
    \A p \in Callers :
        (/\ Done(p, "new")
         /\ dims = 0 \/ schema.reserved
         /\ ret[p].cause # "fault")
        => /\ ~ret[p].ok
           /\ ret[p].err = "SchemaError"
           /\ ret[p].call.stmts = 0

\* C9 (as claimed): a request with samples = 0 makes top_n / top_n_ids return
\* an invalid-request error without calling the embedding model and without
\* sending a query (calls ended by a failure of the embedding model or of the
\* engine left aside).
C9_ZeroSamplesRejected ==
    \A p \in Callers :
        (/\ call[p].pc = "idle"
         /\ ret[p].call.op \in SearchOps
         /\ ret[p].call.req.samples = 0
         /\ ret[p].cause \notin {"fault", "embed"})
        => /\ ~ret[p].ok
           /\ ret[p].err = "InvalidRequest"
           /\ ~ret[p].call.embedded
           /\ ret[p].call.stmts = 0

\* C10 (as claimed): every filter built with the public constructors and
\* combinators has as many placeholders in its condition string as entries
\* in its parameter list.
C10_PlaceholdersMatchParams ==
    Placeholders(filter.condition) = Len(filter.params)

\* The filter the combinators are said to yield for a tree of calls: and / or
\* parenthesise both sides around the operator and put the parameters of the
\* left side before those of the right side; not wraps the condition and
\* keeps the parameters.
RECURSIVE Composed(_)
Composed(e) ==
    CASE e.op = "and" ->
            [condition |-> <<"(">> \o Composed(e.l).condition \o <<") AND (">> \o
                           Composed(e.r).condition \o <<")">>,
             params |-> Composed(e.l).params \o Composed(e.r).params]
      [] e.op = "or" ->
            [condition |-> <<"(">> \o Composed(e.l).condition \o <<") OR (">> \o
                           Composed(e.r).condition \o <<")">>,
             params |-> Composed(e.l).params \o Composed(e.r).params]
      [] e.op = "not" ->
            [condition |-> <<"NOT (">> \o Composed(e.a).condition \o <<")">>,
             params |-> Composed(e.a).params]
      [] OTHER -> Build(e)

\* What each placeholder of the condition of a tree of calls stands for, read
\* left to right: <<v>> for the placeholder a constructor wrote for its value
\* v, <<>> for a "?" that came with text of the caller's.
RECURSIVE Slots(_)
Slots(e) ==
    CASE e.op \in {"and", "or"} -> Slots(e.l) \o Slots(e.r)
      [] e.op = "not" -> Slots(e.a)
      [] e.op \in {"eq", "gt", "lt"} -> <<<<e.value>>>>
      [] e.op \in {"glob", "like"} ->
            [i \in 1..Placeholders(e.pattern) |-> <<>>]
      [] OTHER -> <<>>

\* and / or / not yield the condition and the parameter list described.
CompositionOrder == filter = Composed(expr)

\* C11 (as claimed): a filter obtained with and, or, not has the condition and
\* the parameter list described for the combinators, and the i-th placeholder
\* of its condition, read left to right, stands for its i-th parameter.
C11_PlaceholderOrder ==
    expr.op \in {"and", "or", "not"} =>
        /\ CompositionOrder
        /\ Slots(expr) = [i \in DOMAIN filter.params |-> <<filter.params[i]>>]

\* C12 (as claimed): the filter of like(key, pattern) or glob(key, pattern) has
\* exactly one parameter, the pattern as a string, and a condition that is the
\* same whatever the pattern.
C12_PatternBound ==
    expr.op \in {"glob", "like"} =>
        /\ Len(filter.params) = 1
        /\ filter.params[1].kind = "String"
        /\ <<filter.params[1].text>> = expr.pattern
        /\ \A pt \in Patterns :
              Build([expr EXCEPT !.pattern = pt]).condition = filter.condition

\* The literal said to encode a JSON value.
Literal(value) ==
    CASE value.kind = "Null" -> [type |-> "Null", text |-> "null"]
      [] value.kind = "Bool" ->
            [type |-> "Integer", text |-> IF value.text = "true" THEN "1" ELSE "0"]
      [] value.kind = "String" -> [type |-> "Text", text |-> value.text]
      [] value.kind = "Number" /\ value.n = "Float" ->
            [type |-> "Real", text |-> value.text]
      [] value.kind = "Number" /\ value.n # "Float" ->
            [type |-> "Integer", text |-> value.text]
      [] OTHER -> [type |-> "Blob", text |-> value.text]

\* C13 (as claimed): compile_params returns Ok with one literal per parameter,
\* in order, each of the kind of its JSON value: Null, Integer 0 / 1 for a
\* boolean, Text, Integer of the same value for an integer number, Real for
\* another number, Blob for an array or an object.
C13_EncodingPreservesKind ==
    compiled # <<>> =>
        /\ compiled[1].ok
        /\ Len(compiled[1].values) = Len(filter.params)
        /\ \A i \in DOMAIN filter.params :
              compiled[1].values[i] = Literal(filter.params[i])

\* Caller p is between calls and its last finished call was a search that
\* returned Ok.
Found(p) == call[p].pc = "idle" /\ ret[p].call.op \in SearchOps /\ ret[p].ok

C16_DecodingResilience ==
    \A p \in Callers :
        (/\ call[p].pc = "idle"
         /\ ret[p].call.op = "top_n"
         /\ ret[p].call.pc = "search_query"
         /\ ret[p].cause # "fault")
        => ret[p].ok

\* Every document row of the connection has exactly one embedding row, every
\* embedding row a document row, and nothing is uncommitted.
OneEmbeddingEach(c) ==
    /\ ~c.inTxn
    /\ \A d \in c.docs : Cardinality({e \in c.embs : e.rowid = d.rowid}) = 1
    /\ \A e \in c.embs : \E d \in c.docs : d.rowid = e.rowid

\* C17 (as claimed): on a store whose documents have one embedding each, a
\* top_n_ids request with samples = 1 and no threshold, whose query vector is
\* the vector of exactly one document, returns that document's id with
\* distance 0 and nothing else.
C17_ExactMatch ==
    \A p \in Callers :
        (/\ call[p].pc = "idle"
         /\ ret[p].call.op = "top_n_ids"
         /\ ret[p].call.pc = "search_query"
         /\ ret[p].cause # "fault"
         /\ ret[p].call.req.samples = 1
         /\ ret[p].call.req.threshold = <<>>
         /\ OneEmbeddingEach(conn))
        => \A d \in conn.docs :
              (\A o \in conn.docs :
                  (\E e \in conn.embs :
                      /\ e.rowid = o.rowid
                      /\ e.vec = Embed(ret[p].call.req.query)) <=> o = d)
              => /\ ret[p].ok
                 /\ ret[p].rows = <<[distance |-> 0, id |-> d.id]>>

\* A top_n result with the decoded records dropped.
IdsOf(rows) ==
    [i \in DOMAIN rows |-> [distance |-> rows[i].distance, id |-> rows[i].id]]

\* C18 (as claimed): for a record type that every row deserializes into,
\* what top_n_ids returns is a top_n result of the same request on the same
\* store with the records dropped, and what top_n returns, with the records
\* dropped, is a top_n_ids result.
C18_IdsProjectTopN ==
    \A p \in Callers :
        (Found(p) /\ schema.reported /\ ret[p].call.D # "Strict") =>
            IF ret[p].call.op = "top_n_ids"
            THEN ret[p].rows \in
                    {IdsOf(rows) : rows \in QueryResults(conn, "top_n", "Document",
                                                       ret[p].call.req)}
            ELSE IdsOf(ret[p].rows) \in
                    QueryResults(conn, "top_n_ids", "none", ret[p].call.req)

\* C19: a search that returns an embedding error or a filter error has sent
\* no statement, has called the embedding model once, and has left the
\* store and the transaction state of the connection as they were.
C19_RequestFailuresIssueNoQuery ==
    \A p \in Callers :
        (/\ call[p].pc = "idle"
         /\ ret[p].call.op \in SearchOps
         /\ ret[p].err \in {"EmbeddingError", "FilterError"})
        => /\ ~ret[p].ok
           /\ ret[p].call.stmts = 0
           /\ ret[p].call.pc = "search_embed"
           /\ View(conn) = ret[p].call.pre
           /\ conn.inTxn = ret[p].call.preTxn

\* C19 witness: a search on a store that holds rows returned the error of
\* the embedding model.
C19_Witness ==
    \E p \in Callers :
        /\ call[p].pc = "idle"
        /\ ret[p].call.op \in SearchOps
        /\ ret[p].err = "EmbeddingError"
        /\ ret[p].call.pre.docs # {} /\ ret[p].call.pre.embs # {}

\* The batch of caller q is in flight: its BEGIN was executed, its COMMIT was
\* not, and the transaction it opened is still open.
InFlight(q) ==
    /\ call[q].op = "add_rows"
    /\ call[q].pc \in {"add_insert", "add_rowid", "add_embedding", "add_commit"}
    /\ conn.inTxn

\* The store as it was when the open transaction began.
PreBatch == [conn EXCEPT !.tables = conn.saved.tables, !.docs = conn.saved.docs,
                         !.embs = conn.saved.embs]

\* C14 (as claimed): a search whose query is answered while the batch of an
\* add_rows call is in flight returns what the query returns on the store
\* as it was before the batch or, once every item of the batch is written,
\* on the store with the whole batch; never on a store with part of it.
C14_ReadIsolation ==
    [][\A p, q \in Callers :
         (/\ InFlight(q)
          /\ call[p].pc = "search_query"
          /\ call'[p].pc = "idle"
          /\ ret'[p].ok)
         => \/ ret'[p].rows \in QueryResults(PreBatch, call[p].op, call[p].D,
                                             call[p].req)
            \/ /\ call[q].pc = "add_commit"
               /\ ret'[p].rows \in QueryResults(conn, call[p].op, call[p].D,
                                                call[p].req)]_vars

\* The filter expression is built from eq, gt, lt, and, or, not whose values
\* the column can be compared with in memory: a string, or null for eq.
RECURSIVE InScope(_)
InScope(e) ==
    CASE e.op = "eq" -> e.value.kind \in {"String", "Null"}
      [] e.op \in {"gt", "lt"} -> e.value.kind = "String"
      [] e.op \in {"and", "or"} -> InScope(e.l) /\ InScope(e.r)
      [] e.op = "not" -> InScope(e.a)
      [] OTHER -> FALSE

\* The predicate of the filter expression evaluated in memory on the column
\* values of a document: strings compare by their bytes, no string equals null.
RECURSIVE Holds(_, _)
Holds(e, doc) ==
    CASE e.op = "eq" -> e.value.kind = "String" /\ doc.content = e.value.text
      [] e.op = "gt" -> Rank(doc.content) > Rank(e.value.text)
      [] e.op = "lt" -> Rank(doc.content) < Rank(e.value.text)
      [] e.op = "and" -> Holds(e.l, doc) /\ Holds(e.r, doc)
      [] e.op = "or" -> Holds(e.l, doc) \/ Holds(e.r, doc)
      [] e.op = "not" -> ~Holds(e.a, doc)

\* C20 (as claimed): a search over the fixture that carries a filter built
\* from eq, gt, lt, and, or, not, with as many samples as the fixture has
\* documents, returns exactly the documents for which the predicate of the
\* filter, evaluated in memory on the document's column values, is true.
C20_FilterRoundTrip ==
    \A p \in Callers :
        (/\ Found(p)
         /\ ret[p].call.D # "Strict"
         /\ ret[p].call.req.filter = <<Composed(expr)>>
         /\ ret[p].call.req.samples >= Cardinality(conn.docs)
         /\ InScope(expr))
        => {ret[p].rows[i].id : i \in DOMAIN ret[p].rows} =
           {d.id : d \in {doc \in conn.docs : Holds(expr, doc)}}

\* Positions of the calls of builder method m, and the argument of the last.
CallsOf(m) == {i \in DOMAIN calls : calls[i].m = m}
LastSet(m) == calls[Max(CallsOf(m))].v

\* C21: build succeeds exactly when name was called at least once, and
\* panics with "Skill name is required" otherwise; the skill it returns
\* has the last name set and the last description set, or the empty
\* description when none was set.
C21_BuildRequiresName ==
    skill.state # "none" =>
        IF CallsOf("name") # {}
        THEN /\ skill.state = "built"
             /\ skill.name = LastSet("name")
             /\ skill.description = IF CallsOf("description") = {} THEN ""
                                    ELSE LastSet("description")
        ELSE /\ skill.state = "panic"
             /\ skill.message = "Skill name is required"

\* C21 witness: a skill was built after name was set twice, to two values.
C21_Witness ==
    /\ skill.state = "built"
    /\ Cardinality({calls[i].v : i \in CallsOf("name")}) = 2

\* What the calls of one adding method and of its plural added, in order.
RECURSIVE AddedBy(_, _, _)
AddedBy(log, one, many) ==
    IF log = <<>> THEN <<>>
    ELSE (IF Head(log).m = one THEN <<Head(log).v>>
          ELSE IF Head(log).m = many THEN Head(log).v
          ELSE <<>>) \o AddedBy(Tail(log), one, many)

\* C22: the components of a built skill hold every added tool and every
\* added context document once, in the order added, and the last preamble
\* set, or None.
C22_ComponentsKeepAdditions ==
    components # <<>> =>
        /\ components[1].tools = AddedBy(calls, "tool", "tools")
        /\ components[1].context_documents =
              AddedBy(calls, "context_document", "context_documents")
        /\ components[1].preamble = IF CallsOf("preamble") = {} THEN <<>>
                                    ELSE <<LastSet("preamble")>>

\* C22 witness: components were taken from a skill to which a tool was
\* added before a vector of tools.
C22_Witness ==
    /\ components # <<>>
    /\ \E i \in CallsOf("tool"), j \in CallsOf("tools") :
          i < j /\ calls[j].v # <<>>
    /\ Len(components[1].tools) >= 2

\* C30 (as claimed): the conversion returns Ok or Err for every response,
\* and Ok carries the decoding of the first entry of data.
C30_ConversionNeverPanics ==
    converted # <<>> =>
        /\ converted[1].state \in {"Ok", "Err"}
        /\ converted[1].state = "Ok" =>
              /\ response.data # <<>>
              /\ converted[1].image = decode(response.data[1].b64_json).bytes

\* C26: between(key, lo..=hi) yields "<key> between <lo> and <hi>" with both
\* bounds in the condition text and no parameter; is_null(key) and
\* is_not_null(key) yield "<key> is null" / "<key> is not null" with no
\* parameter.
C26_ZeroParameterPredicates ==
    /\ expr.op = "between" =>
          /\ filter.condition = <<expr.key, " between ", ToString(expr.lo),
                                  " and ", ToString(expr.hi)>>
          /\ filter.params = <<>>
    /\ expr.op = "is_null" =>
          /\ filter.condition = <<expr.key, " is null">>
          /\ filter.params = <<>>
    /\ expr.op = "is_not_null" =>
          /\ filter.condition = <<expr.key, " is not null">>
          /\ filter.params = <<>>

\* C26 witness: a between filter over a range with two different bounds was
\* built.
C26_Witness ==
    /\ expr.op = "between"
    /\ expr.lo < expr.hi
    /\ filter.condition # <<>>

At(sql, piece) == CHOOSE i \in DOMAIN sql : sql[i] = piece
\* The column names a statement lists between " (" and ") VALUES (", and the
\* placeholders it lists after that.
NamedColumns(sql) ==
    SelectSeq(SubSeq(sql, At(sql, " (") + 1, At(sql, ") VALUES (") - 1),
              LAMBDA t : t # ", ")
Numbered(sql) ==
    SelectSeq(SubSeq(sql, At(sql, ") VALUES (") + 1, Len(sql) - 1),
              LAMBDA t : t # ", ")

\* C25: the upsert statement add_rows has just sent for a record names the
\* columns of column_values() in their order, has the placeholders ?1..?n,
\* one per column, binds the to_sql_string of the i-th value as its i-th
\* parameter, and holds no column value in its text.
C25_UpsertBindsColumns ==
    \A p \in Callers :
        (call[p].op = "add_rows" /\ call[p].pc = "add_rowid") =>
            LET values == column_values(call[p].documents[call[p].k])
                st     == call[p].sent[1]
            IN  /\ Len(call[p].sent) = 1
                /\ st.sql[1] = "INSERT OR REPLACE INTO "
                /\ NamedColumns(st.sql) =
                      [i \in DOMAIN values |-> values[i][1]]
                /\ Numbered(st.sql) =
                      [i \in DOMAIN values |-> "?" \o ToString(i)]
                /\ st.params =
                      [i \in DOMAIN values |->
                          [type |-> "Text", text |-> values[i][2].text]]
                /\ \A i \in DOMAIN st.sql, j \in DOMAIN values :
                      st.sql[i] # values[j][2].text

\* C25 witness: add_rows has sent the upsert of the second record of a batch
\* whose record type reports `content` before `id`.
C25_Witness ==
    \E p \in Callers :
        /\ call[p].op = "add_rows" /\ call[p].pc = "add_rowid"
        /\ call[p].k = 2
        /\ schema.reported /\ ~schema.idFirst

\* C29 (as claimed): the id of every entry of a top_n result is the value
\* of the `id` column of the document it carries.
C29_IdIsIdColumn ==
    \A p \in Callers :
        (Found(p) /\ ret[p].call.op = "top_n") =>
            \A i \in DOMAIN ret[p].rows : ret[p].rows[i].id = ret[p].rows[i].doc.id

\* C23 (as claimed): the WHERE clause a search has sent ends in
\* "e.distance > ?", alone or as the left operand of AND with the condition
\* of the request's filter; its parameters are the query vector, the
\* samples, the threshold (0 when unset), then the parameters of the
\* request's filter in their order; and it has as many placeholders as
\* parameters.
C23_WhereClauseParameters ==
    \A p \in Callers :
        Found(p) =>
            LET req == ret[p].call.req
                w   == ret[p].call.sent[1]
            IN  /\ Len(ret[p].call.sent) = 1
                /\ Condition(w) =
                      IF req.filter = <<>>
                      THEN <<"e.distance", " > ", "?">>
                      ELSE <<"(", "e.distance", " > ", "?", ") AND (">> \o
                           req.filter[1].condition \o <<")">>
                /\ SubSeq(w.params, 1, 3) =
                      <<[type |-> "Blob", text |-> req.query],
                        [type |-> "Integer", text |-> ToString(req.samples)],
                        [type |-> "Real",
                         text |-> IF req.threshold = <<>> THEN "0"
                                  ELSE ToString(req.threshold[1])]>>
                /\ SubSeq(w.params, 4, Len(w.params)) =
                      IF req.filter = <<>> THEN <<>>
                      ELSE compile_params(req.filter[1]).values
                /\ Len(w.params) = Placeholders(w.where_clause)

\* The connection with the writes of its open transaction taken back: what
\* is committed.
Committed(c) ==
    IF c.inTxn
    THEN [c EXCEPT !.tables = c.saved.tables, !.docs = c.saved.docs,
                   !.embs = c.saved.embs]
    ELSE c

\* C27 (as claimed): once an add_rows future was dropped between its BEGIN
\* and its COMMIT, no row it wrote is among the committed rows, a search
\* returns what its query returns on the committed rows, and the BEGIN of
\* a later add_rows call succeeds.
C27_CancellationSafety ==
    [][hist.dropped =>
         /\ Committed(conn').docs \cap hist.lost = {}
         /\ \A p \in Callers :
               /\ (/\ call[p].pc = "search_query"
                   /\ call'[p].pc = "idle"
                   /\ ret'[p].ok)
                  => ret'[p].rows \in QueryResults(Committed(conn), call[p].op,
                                                   call[p].D, call[p].req)
               /\ (call[p].pc = "add_begin" /\ call'[p].pc # "add_begin")
                  => call'[p].pc \in {"add_insert", "add_commit"}]_vars

\* No document row that the connection holds under the row identifier
\* belongs to a record other than the one caller p is storing.
Owns(c, p, rowid) ==
    \A d \in c.docs :
        d.rowid = rowid =>
            /\ d.id = call[p].documents[call[p].k].id
            /\ d.content = call[p].documents[call[p].k].content

\* C28 (as claimed): when add_rows calls interleave on the connection, the
\* identifier a call reads with last_insert_rowid() is never that of the
\* row of another call's record, and no embedding row it inserts goes
\* under the identifier of another call's record.
C28_EmbeddingOwnership ==
    [][\A p \in Callers :
         /\ (call[p].pc = "add_rowid" /\ call'[p].pc = "add_embedding")
            => Owns(conn, p, call'[p].last_id)
         /\ (call[p].pc = "add_embedding" /\ conn'.embs # conn.embs)
            => Owns(conn, p, call[p].last_id)]_vars

====
